---- MODULE Spec2Model ----
(***************************************************************************)
(* State-machine model of sattrack/interface/script.js: the browser-side   *)
(* view of the satellite tracker.  One action per event-loop callback      *)
(* (status poll success / failure, poll timer, the four command buttons    *)
(* and their responses, the geometry-asset load).  Each callback runs to   *)
(* completion, or to the statement that throws, before the next one.       *)
(*                                                                         *)
(* Numbers are fixed-point: the integer v stands for v / 10000, so that    *)
(* toFixed(3) really rounds.  Timer delays are whole milliseconds.         *)
(***************************************************************************)
EXTENDS Integers, Sequences, FiniteSets, TLC

VARIABLES
    lon, lat, az, alt,   \* $lon, $lat, $az, $alt: last known position
    time,                \* $time
    stop_flag,           \* $stop_flag
    trajectory,          \* $trajectory: sequence of <<lon, lat>>
    labels,              \* text of #lon, #lat, #azi, #alt, #time
    logDisplay,          \* children of #log, top first
    rotation,            \* $projection.rotate()
    world,               \* d3.json("world-50m.json"): "loading", "loaded", "failed"
    drawnTrail,          \* coordinates last rendered into the .trajectory path
    marker,              \* cx, cy of the .satellite circle, relative to the
                         \* centre of the drawing surface
    statusInFlight,      \* number of ?status requests not yet answered
    timers,              \* delays (ms) of the pending setTimeout(getStatus, ..)
    requests,            \* computing requests whose callback is still pending
    last,                \* the callback that ran last, its payload, and the
                         \* trajectory, log display and stop_flag it found
    lastPoll,            \* outcome of the most recent completed status poll,
                         \* and the labels shown when its callback ended
    lastClick            \* the computing command clicked last; "none" before
                         \* the first click and once a computing request failed

vars == <<lon, lat, az, alt, time, stop_flag, trajectory, labels, logDisplay,
          rotation, world, drawnTrail, statusInFlight, timers, requests,
          marker, last, lastPoll, lastClick>>

(***************************************************************************)
(* Bounds of the model.                                                    *)
(***************************************************************************)
MaxTraj == 2        \* longest trajectory explored
MaxLog == 3         \* most entries in the log display explored
MaxRequests == 2    \* most command requests in flight at once

(***************************************************************************)
(* JSON values and JavaScript numbers.                                     *)
(***************************************************************************)
Num(v) == [t |-> "number", v |-> v]
Str(v) == [t |-> "string", v |-> v]       \* a number encoded as a decimal string
Undefined == [t |-> "undefined", v |-> 0] \* the field is absent
NaN == [t |-> "NaN", v |-> 0]

Arr(s) == [t |-> "array", v |-> s]
UndefinedLog == [t |-> "undefined", v |-> <<>>]

\* parseFloat(x): a number or a decimal string gives the number, an absent
\* field gives NaN.
ParseFloat(x) == IF x.t \in {"number", "string"} THEN Num(x.v) ELSE NaN

\* unary minus
Neg(x) == IF x.t = "number" THEN Num(0 - x.v) ELSE NaN

Pad3(n) ==
    IF n < 10 THEN "00" \o ToString(n)
    ELSE IF n < 100 THEN "0" \o ToString(n)
    ELSE ToString(n)

\* Number.prototype.toFixed(3): NaN prints as "NaN"; otherwise the sign,
\* then the magnitude rounded to the nearest thousandth (ties upward).
ToFixed3(x) ==
    IF x.t # "number" THEN "NaN"
    ELSE LET a == IF x.v < 0 THEN 0 - x.v ELSE x.v
             m == (a + 5) \div 10
         IN  (IF x.v < 0 THEN "-" ELSE "")
                 \o ToString(m \div 1000) \o "." \o Pad3(m % 1000)

\* The delay setTimeout uses for 1000 * interval: the product truncated to
\* whole milliseconds, and 0 when the product is NaN.
TimeoutDelay(interval) ==
    IF interval.t \in {"number", "string"}
    THEN (1000 * interval.v) \div 10000
    ELSE 0

(***************************************************************************)
(* The status payloads the server is taken to answer with.                 *)
(***************************************************************************)
NoData ==
    [lon |-> Undefined, lat |-> Undefined, az |-> Undefined, alt |-> Undefined,
     time |-> "", log |-> UndefinedLog, interval |-> Undefined]

\* lon 20, lat 10, two log lines, interval 5 s
StatusA ==
    [lon |-> Num(200000), lat |-> Num(100000), az |-> Num(1355000),
     alt |-> Num(452500), time |-> "12:00:00",
     log |-> Arr(<<"a", "b">>), interval |-> Num(50000)]

\* string-encoded fields, no alt, empty log, interval "1"
StatusB ==
    [lon |-> Str(-31416), lat |-> Str(514778), az |-> Num(4),
     alt |-> Undefined, time |-> "12:00:05",
     log |-> Arr(<<>>), interval |-> Str(10000)]

\* the position of StatusA in a payload without the log field
StatusNoLog == [StatusA EXCEPT !.log = UndefinedLog]

\* the position of StatusB with one log line and no interval field
StatusNoInterval ==
    [StatusB EXCEPT !.log = Arr(<<"c">>), !.interval = Undefined]

StatusPayloads == {StatusA, StatusB, StatusNoLog, StatusNoInterval}

\* The commands whose request carries a success callback, and those sent
\* without any callback.
ComputingCommands == {"startcomputing", "stopcomputing"}
TrackingCommands == {"starttracking", "stoptracking"}

FailMessage == "Server connection failed. Retrying in 2s."

FailDelay == 2000

(***************************************************************************)
(* Helpers of the script.                                                  *)
(***************************************************************************)
\* Variants of addTrajectory: the point pushed latitude first; a point equal
\* to the last one not pushed again.
AddTrajectoryLatFirst(traj, la, lo) == Append(traj, <<la, lo>>)

AddTrajectoryDedup(traj, la, lo) ==
    IF traj # <<>> /\ traj[Len(traj)] = <<lo, la>> THEN traj
    ELSE Append(traj, <<lo, la>>)

\* addTrajectory(lat, lon): $trajectory.push([lon, lat])
AddTrajectory(traj, la, lo) == Append(traj, <<lo, la>>)

\* Variant of appendLog: the response's entries prepended as one block.
AppendLogBatch(display, log) ==
    [i \in 1..Len(log) |-> "<p>" \o log[i] \o "</p>"] \o display

\* appendLog(log): each entry in turn is prepended to the display
RECURSIVE AppendLog(_, _)
AppendLog(display, log) ==
    IF log = <<>> THEN display
    ELSE AppendLog(<<"<p>" \o Head(log) \o "</p>">> \o display, Tail(log))

\* rotateProjection(lat, lon): $projection.rotate([-lon, -lat])
RotateProjection(la, lo) == <<Neg(lo), Neg(la)>>

\* $projection(point) under rotation rot, relative to the projection's
\* translate, which is the centre of the drawing surface.  The orthographic
\* projection maps the point the rotation centres, <<-rot[1], -rot[2]>>, to
\* the centre itself, and no other point of the visible hemisphere; the
\* offset of the other points is kept as their angular distance from it.  A
\* NaN coordinate gives NaN.
Project(rot, point) ==
    IF \E x \in {rot[1], rot[2], point[1], point[2]} : x.t # "number"
    THEN <<NaN, NaN>>
    ELSE <<Num(point[1].v + rot[1].v), Num(point[2].v + rot[2].v)>>

\* plotPoints: re-render the .trajectory path, if it exists
PlotPoints(traj) == IF world = "loaded" THEN traj ELSE drawnTrail

InFlight == requests["startcomputing"] + requests["stopcomputing"]

\* What `last` records when callback op has run on payload data.
Ran(op, data) ==
    [op |-> op, data |-> data, traj |-> trajectory, log |-> logDisplay,
     stop |-> stop_flag]

(***************************************************************************)
(* Initial state: document.ready has run setVariables, drawMap, drawSat,   *)
(* setClickListeners and getStatus.                                        *)
(***************************************************************************)
Init ==
    /\ lon = Num(0) /\ lat = Num(0) /\ az = Num(0) /\ alt = Num(0)
    /\ time = ""
    /\ stop_flag = FALSE
    /\ trajectory = <<>>
    /\ labels = [lon |-> "", lat |-> "", azi |-> "", alt |-> "", time |-> ""]
    /\ logDisplay = <<>>
    /\ rotation = <<Num(0), Num(0)>>
    /\ world = "loading"
    /\ drawnTrail = <<>>
    /\ marker = Project(rotation, <<lon, lat>>)
    /\ statusInFlight = 1
    /\ timers = <<>>
    /\ requests = [c \in ComputingCommands |-> 0]
    /\ last = [op |-> "ready", data |-> NoData, traj |-> <<>>, log |-> <<>>,
               stop |-> FALSE]
    /\ lastPoll = [ok |-> FALSE, data |-> NoData, labels |-> labels]
    /\ lastClick = "none"

(***************************************************************************)
(* The poll loop.                                                          *)
(***************************************************************************)
\* The success callback of $.getJSON(?status).  A payload without log makes
\* appendLog throw at log.length: the statements after it do not run.
PollSuccess(data) ==
    /\ statusInFlight > 0
    /\ Len(trajectory) < MaxTraj
    /\ data.log.t = "array" => Len(logDisplay) + Len(data.log.v) <= MaxLog
    /\ statusInFlight' = statusInFlight - 1
    /\ lon' = ParseFloat(data.lon)
    /\ lat' = ParseFloat(data.lat)
    /\ az' = ParseFloat(data.az)
    /\ alt' = ParseFloat(data.alt)
    /\ time' = data.time
    /\ trajectory' = AddTrajectory(trajectory, lat', lon')
    /\ IF data.log.t = "array"
       THEN /\ logDisplay' = AppendLog(logDisplay, data.log.v)
            /\ labels' = [lon |-> ToFixed3(lon'), lat |-> ToFixed3(lat'),
                          azi |-> ToFixed3(az'), alt |-> ToFixed3(alt'),
                          time |-> time' \o " UTC"]
            /\ rotation' = RotateProjection(lat', lon')
            /\ drawnTrail' = PlotPoints(trajectory')
            /\ timers' = Append(timers, TimeoutDelay(data.interval))
       ELSE UNCHANGED <<logDisplay, labels, rotation, drawnTrail, timers>>
    /\ last' = Ran("pollSuccess", data)
    /\ lastPoll' = [ok |-> TRUE, data |-> data, labels |-> labels']
    /\ UNCHANGED <<stop_flag, world, requests,
                   lastClick, marker>>

\* Variants of the fail callback: the trajectory reset skipped once computing
\* is stopped; the labels blanked; the failure line logged whatever
\* stop_flag is.
PollFailKeepsTrajectoryWhenStopped ==
    /\ statusInFlight > 0
    /\ ~stop_flag => Len(logDisplay) < MaxLog
    /\ statusInFlight' = statusInFlight - 1
    /\ timers' = Append(timers, FailDelay)
    /\ trajectory' = IF stop_flag THEN trajectory ELSE <<>>
    /\ logDisplay' = IF ~stop_flag THEN AppendLog(logDisplay, <<FailMessage>>)
                     ELSE logDisplay
    /\ last' = Ran("pollFail", NoData)
    /\ lastPoll' = [ok |-> FALSE, data |-> NoData, labels |-> labels]
    /\ UNCHANGED <<lon, lat, az, alt, time, stop_flag, labels, rotation,
                   world, drawnTrail, requests,
                   lastClick, marker>>

PollFailBlanksLabels ==
    /\ statusInFlight > 0
    /\ ~stop_flag => Len(logDisplay) < MaxLog
    /\ statusInFlight' = statusInFlight - 1
    /\ timers' = Append(timers, FailDelay)
    /\ trajectory' = <<>>
    /\ labels' = [lon |-> "", lat |-> "", azi |-> "", alt |-> "", time |-> ""]
    /\ logDisplay' = IF ~stop_flag THEN AppendLog(logDisplay, <<FailMessage>>)
                     ELSE logDisplay
    /\ last' = Ran("pollFail", NoData)
    /\ lastPoll' = [ok |-> FALSE, data |-> NoData, labels |-> labels']
    /\ UNCHANGED <<lon, lat, az, alt, time, stop_flag, rotation,
                   world, drawnTrail, requests, lastClick, marker>>

PollFailAlwaysLogs ==
    /\ statusInFlight > 0
    /\ Len(logDisplay) < MaxLog
    /\ statusInFlight' = statusInFlight - 1
    /\ timers' = Append(timers, FailDelay)
    /\ trajectory' = <<>>
    /\ logDisplay' = AppendLog(logDisplay, <<FailMessage>>)
    /\ last' = Ran("pollFail", NoData)
    /\ lastPoll' = [ok |-> FALSE, data |-> NoData, labels |-> labels]
    /\ UNCHANGED <<lon, lat, az, alt, time, stop_flag, labels, rotation,
                   world, drawnTrail, requests,
                   lastClick, marker>>

\* The fail callback of the status request.
PollFail ==
    /\ statusInFlight > 0
    /\ ~stop_flag => Len(logDisplay) < MaxLog
    /\ statusInFlight' = statusInFlight - 1
    /\ timers' = Append(timers, FailDelay)
    /\ trajectory' = <<>>
    /\ logDisplay' = IF ~stop_flag THEN AppendLog(logDisplay, <<FailMessage>>)
                     ELSE logDisplay
    /\ last' = Ran("pollFail", NoData)
    /\ lastPoll' = [ok |-> FALSE, data |-> NoData, labels |-> labels]
    /\ UNCHANGED <<lon, lat, az, alt, time, stop_flag, labels, rotation,
                   world, drawnTrail, requests,
                   lastClick, marker>>

\* Variant of the timer: it stays armed after firing, as setInterval would.
TimerFireRepeating(i) ==
    /\ i \in 1..Len(timers)
    /\ statusInFlight < 3
    /\ statusInFlight' = statusInFlight + 1
    /\ last' = Ran("getStatus", NoData)
    /\ UNCHANGED <<lon, lat, az, alt, time, stop_flag, trajectory, labels,
                   logDisplay, rotation, world, drawnTrail, timers, requests,
                   lastPoll,
                   lastClick, marker>>

\* A pending timer expires and getStatus issues the next status request.
TimerFire(i) ==
    /\ i \in 1..Len(timers)
    /\ timers' = [j \in 1..(Len(timers) - 1) |->
                     IF j < i THEN timers[j] ELSE timers[j + 1]]
    /\ statusInFlight' = statusInFlight + 1
    /\ last' = Ran("getStatus", NoData)
    /\ UNCHANGED <<lon, lat, az, alt, time, stop_flag, trajectory, labels,
                   logDisplay, rotation, world, drawnTrail, requests, lastPoll,
                   lastClick, marker>>

(***************************************************************************)
(* The command buttons.                                                    *)
(***************************************************************************)
ClickStartComputing ==
    /\ InFlight < MaxRequests
    /\ requests' = [requests EXCEPT !["startcomputing"] = @ + 1]
    /\ lastClick' = "startcomputing"
    /\ last' = Ran("clickStartComputing", NoData)
    /\ UNCHANGED <<lon, lat, az, alt, time, stop_flag, trajectory, labels,
                   logDisplay, rotation, world, drawnTrail, statusInFlight,
                   timers, lastPoll, marker>>

\* Variant of the start-computing success callback: it also starts the
\* trajectory afresh.
StartComputingSuccessClears ==
    /\ requests["startcomputing"] > 0
    /\ requests' = [requests EXCEPT !["startcomputing"] = @ - 1]
    /\ stop_flag' = FALSE
    /\ trajectory' = <<>>
    /\ last' = Ran("startComputingSuccess", NoData)
    /\ UNCHANGED <<lon, lat, az, alt, time, labels, logDisplay,
                   rotation, world, drawnTrail, statusInFlight, timers, lastPoll,
                   lastClick, marker>>

StartComputingSuccess ==
    /\ requests["startcomputing"] > 0
    /\ requests' = [requests EXCEPT !["startcomputing"] = @ - 1]
    /\ stop_flag' = FALSE
    /\ last' = Ran("startComputingSuccess", NoData)
    /\ UNCHANGED <<lon, lat, az, alt, time, trajectory, labels, logDisplay,
                   rotation, world, drawnTrail, statusInFlight, timers, lastPoll,
                   lastClick, marker>>

\* Variant of the stop-computing click: the request is sent and the
\* trajectory is left for the success callback to deal with.
ClickStopComputingKeeps ==
    /\ InFlight < MaxRequests
    /\ requests' = [requests EXCEPT !["stopcomputing"] = @ + 1]
    /\ lastClick' = "stopcomputing"
    /\ last' = Ran("clickStopComputing", NoData)
    /\ UNCHANGED <<lon, lat, az, alt, time, stop_flag, trajectory, labels,
                   logDisplay, rotation, world, drawnTrail, statusInFlight,
                   timers, lastPoll, marker>>

ClickStopComputing ==
    /\ InFlight < MaxRequests
    /\ trajectory' = <<>>
    /\ requests' = [requests EXCEPT !["stopcomputing"] = @ + 1]
    /\ lastClick' = "stopcomputing"
    /\ last' = Ran("clickStopComputing", NoData)
    /\ UNCHANGED <<lon, lat, az, alt, time, stop_flag, labels, logDisplay,
                   rotation, world, drawnTrail, statusInFlight, timers, lastPoll, marker>>

\* Variant of the stop-computing success callback: it also empties the
\* trajectory.
StopComputingSuccessClears ==
    /\ requests["stopcomputing"] > 0
    /\ requests' = [requests EXCEPT !["stopcomputing"] = @ - 1]
    /\ stop_flag' = TRUE
    /\ trajectory' = <<>>
    /\ last' = Ran("stopComputingSuccess", NoData)
    /\ UNCHANGED <<lon, lat, az, alt, time, labels, logDisplay,
                   rotation, world, drawnTrail, statusInFlight, timers, lastPoll,
                   lastClick, marker>>

StopComputingSuccess ==
    /\ requests["stopcomputing"] > 0
    /\ requests' = [requests EXCEPT !["stopcomputing"] = @ - 1]
    /\ stop_flag' = TRUE
    /\ last' = Ran("stopComputingSuccess", NoData)
    /\ UNCHANGED <<lon, lat, az, alt, time, trajectory, labels, logDisplay,
                   rotation, world, drawnTrail, statusInFlight, timers, lastPoll,
                   lastClick, marker>>

\* #starttracking / #stoptracking: the request is sent with no callback, so
\* nothing of the view depends on its outcome.
ClickTracking(c) ==
    /\ c \in TrackingCommands
    /\ last' = Ran("clickTracking", NoData)
    /\ UNCHANGED <<lon, lat, az, alt, time, stop_flag, trajectory, labels,
                   logDisplay, rotation, world, drawnTrail, statusInFlight,
                   timers, requests, lastPoll,
                   lastClick, marker>>

\* A computing request fails: it has no fail callback, and its success
\* callback will never run.
RequestFailed(c) ==
    /\ c \in ComputingCommands
    /\ requests[c] > 0
    /\ requests' = [requests EXCEPT ![c] = @ - 1]
    /\ lastClick' = "none"
    /\ last' = Ran("requestFailed", NoData)
    /\ UNCHANGED <<lon, lat, az, alt, time, stop_flag, trajectory, labels,
                   logDisplay, rotation, world, drawnTrail, statusInFlight,
                   timers, lastPoll, marker>>

(***************************************************************************)
(* The geometry asset.                                                     *)
(***************************************************************************)
\* Variant of the load callback: it starts the trajectory afresh before
\* drawing its layer.
WorldLoadedClears ==
    /\ world = "loading"
    /\ world' = "loaded"
    /\ trajectory' = <<>>
    /\ drawnTrail' = <<>>
    /\ last' = Ran("worldLoaded", NoData)
    /\ UNCHANGED <<lon, lat, az, alt, time, stop_flag, labels,
                   logDisplay, rotation, statusInFlight, timers, requests,
                   lastPoll,
                   lastClick, marker>>

\* d3.json callback without error: land, boundary and trajectory layers.
WorldLoaded ==
    /\ world = "loading"
    /\ world' = "loaded"
    /\ drawnTrail' = trajectory
    /\ last' = Ran("worldLoaded", NoData)
    /\ UNCHANGED <<lon, lat, az, alt, time, stop_flag, trajectory, labels,
                   logDisplay, rotation, statusInFlight, timers, requests,
                   lastPoll,
                   lastClick, marker>>

\* d3.json callback with error: throws before any layer is added.
WorldFailed ==
    /\ world = "loading"
    /\ world' = "failed"
    /\ last' = Ran("worldFailed", NoData)
    /\ UNCHANGED <<lon, lat, az, alt, time, stop_flag, trajectory, labels,
                   logDisplay, rotation, drawnTrail, statusInFlight, timers,
                   requests, lastPoll,
                   lastClick, marker>>

Next ==
    \/ \E data \in StatusPayloads : PollSuccess(data)
    \/ PollFail
    \/ \E i \in 1..Len(timers) : TimerFire(i)
    \/ ClickStartComputing
    \/ StartComputingSuccess
    \/ ClickStopComputing
    \/ StopComputingSuccess
    \/ \E c \in TrackingCommands : ClickTracking(c)
    \/ \E c \in ComputingCommands : RequestFailed(c)
    \/ WorldLoaded
    \/ WorldFailed

Spec == Init /\ [][Next]_vars

(***************************************************************************)
(* Properties.                                                             *)
(***************************************************************************)
Point(data) == <<ParseFloat(data.lon), ParseFloat(data.lat)>>

\* C1: every successful status poll appends exactly one point to the end of
\* trajectory, the point is <<lon, lat>> of the response, and the points
\* already there keep their values and order.
PollAppendsLonLat ==
    last.op = "pollSuccess" =>
        /\ Len(trajectory) = Len(last.traj) + 1
        /\ trajectory[Len(trajectory)] = Point(last.data)
        /\ \A i \in 1..Len(last.traj) : trajectory[i] = last.traj[i]

\* A successful poll has extended a trajectory that already held a point, and
\* the new point's longitude differs from its latitude.
PollAppendsLonLatWitness ==
    /\ last.op = "pollSuccess"
    /\ Len(last.traj) >= 1
    /\ Point(last.data)[1] # Point(last.data)[2]
    /\ trajectory[1] # trajectory[2]

\* C2: once the failure callback of a status poll has run, trajectory is
\* empty, whatever its length was and whatever stop_flag is.
FailEmptiesTrajectory == last.op = "pollFail" => trajectory = <<>>

\* A poll failed while computing was stopped and the trajectory held points.
FailEmptiesTrajectoryWitness ==
    /\ last.op = "pollFail"
    /\ stop_flag
    /\ Len(last.traj) >= 2

PollCyclesSequential == statusInFlight + Len(timers) <= 1

\* The timer has issued a status request while a computing request is still
\* unanswered and an earlier poll has completed.
PollCyclesSequentialWitness ==
    /\ last.op = "getStatus"
    /\ statusInFlight = 1
    /\ InFlight > 0
    /\ lastPoll.ok

\* C5: the poll loop never halts.  Only a pending timer issues a status
\* request, so the loop is alive exactly while a request is in flight or a
\* timer is pending.
PollLoopNeverHalts == statusInFlight + Len(timers) >= 1

\* C6: after a successful poll with interval n the next poll is scheduled
\* 1000 * n ms later; after a failed poll it is scheduled 2000 ms later.
NextPollDelay ==
    /\ (last.op = "pollSuccess" /\ last.data.interval.t \in {"number", "string"}) =>
           /\ Len(timers) = 1
           /\ 10000 * timers[1] = 1000 * last.data.interval.v
    /\ last.op = "pollFail" => timers = <<2000>>

\* C7: after every callback the projection rotation is <<-lon, -lat>> of the
\* most recently received position.
RotationFollowsPosition == rotation = <<Neg(lon), Neg(lat)>>

ReversedEntries(log) ==
    [i \in 1..Len(log) |-> "<p>" \o log[Len(log) + 1 - i] \o "</p>"]

\* C8: after a successful poll whose log is <<l1, .., ln>> the display reads
\* ln, .., l1 followed by the entries displayed before, unchanged.
LogPrependedPerEntry ==
    (last.op = "pollSuccess" /\ last.data.log.t = "array") =>
        logDisplay = ReversedEntries(last.data.log.v) \o last.log

\* A poll with two log lines has been shown above earlier entries.
LogPrependedPerEntryWitness ==
    /\ last.op = "pollSuccess"
    /\ last.data.log.t = "array"
    /\ Len(last.data.log.v) = 2
    /\ last.log # <<>>
    /\ logDisplay[1] = "<p>b</p>"
    /\ logDisplay[2] = "<p>a</p>"

\* C9: a failed status poll puts exactly one entry, the connection-failed
\* line, on top of the display when stop_flag is false, and none when it is
\* true.
FailLogsUnlessStopped ==
    last.op = "pollFail" =>
        logDisplay =
            IF stop_flag THEN last.log
            ELSE <<"<p>Server connection failed. Retrying in 2s.</p>">> \o last.log

\* A poll failed with the flag set over a display that already shows a
\* failure line from before the stop.
FailLogsUnlessStoppedWitness ==
    /\ last.op = "pollFail"
    /\ stop_flag
    /\ logDisplay # <<>>
    /\ logDisplay[1] = "<p>Server connection failed. Retrying in 2s.</p>"

SamePosition(d, e) ==
    /\ d.lon = e.lon /\ d.lat = e.lat /\ d.az = e.az /\ d.alt = e.alt
    /\ d.time = e.time

\* C10: when two consecutive successful polls return the same lon, lat, az,
\* alt and time, the labels after the second equal those after the first and
\* trajectory gains one more point on the second.
RepeatedStatusNotDeduplicated ==
    [][(/\ last'.op = "pollSuccess"
        /\ lastPoll.ok
        /\ SamePosition(lastPoll.data, last'.data)) =>
           /\ labels' = lastPoll.labels
           /\ trajectory' = Append(trajectory, Point(last'.data))]_vars

\* The same status has been polled twice in a row and both points are kept.
RepeatedStatusNotDeduplicatedWitness ==
    /\ last.op = "pollSuccess"
    /\ Len(trajectory) >= 2
    /\ trajectory[Len(trajectory)] = trajectory[Len(trajectory) - 1]
    /\ labels.lon = "20.000"
    /\ labels.time = "12:00:00 UTC"

\* C11 as stated: a stop-computing click whose request has not been answered,
\* or fails, leaves stop_flag and trajectory as they were before the click.
StopClickChangesNothing ==
    last.op = "clickStopComputing" =>
        stop_flag = last.stop /\ trajectory = last.traj

\* C11 amended: the click leaves stop_flag as it was and empties trajectory
\* at once; a failing computing request then changes neither.
StopClickClearsWhateverTheOutcome ==
    [][/\ last'.op = "clickStopComputing" =>
              stop_flag' = stop_flag /\ trajectory' = <<>>
       /\ last'.op = "requestFailed" =>
              stop_flag' = stop_flag /\ trajectory' = trajectory]_vars

\* The only computing request in flight has failed, computing was never
\* flagged as stopped, and the trail drawn earlier is gone from memory.
StopClickClearsWhateverTheOutcomeWitness ==
    /\ last.op = "requestFailed"
    /\ InFlight = 0
    /\ ~stop_flag
    /\ trajectory = <<>>
    /\ drawnTrail # <<>>
    /\ lastPoll.ok

\* C12: trajectory is empty at page load; a successful poll appends its
\* <<lon, lat>> point, a poll failure and a stop-computing click empty it,
\* and no other callback changes it.  Hence in every reachable state it is
\* the chronological sequence of the points polled since the last clearing.
TrajectoryIsPollsSinceClear ==
    /\ trajectory = <<>>
    /\ [][trajectory' =
              IF last'.op = "pollSuccess"
              THEN Append(trajectory, Point(last'.data))
              ELSE IF last'.op \in {"pollFail", "clickStopComputing"}
              THEN <<>>
              ELSE trajectory]_vars

\* After a poll failure two polls have succeeded at different positions, the
\* geometry has loaded in between or before, and a computing request is
\* still unanswered.
TrajectoryIsPollsSinceClearWitness ==
    /\ last.op = "pollSuccess"
    /\ Len(trajectory) = 2
    /\ trajectory[1] # trajectory[2]
    /\ \E i \in 1..Len(logDisplay) :
           logDisplay[i] = "<p>Server connection failed. Retrying in 2s.</p>"
    /\ world = "loaded"
    /\ InFlight > 0

\* C13: once the geometry has loaded, after every callback the drawn trail
\* equals the in-memory trajectory, so no stale trail stays on screen after
\* a poll failure or a stop-computing click.
DrawnTrailIsTrajectory == world = "loaded" => drawnTrail = trajectory

\* C14: once every computing request has been answered with success,
\* stop_flag tells which computing command was clicked last, in whatever
\* order the responses arrived.
LastClickedCommandWins ==
    (InFlight = 0 /\ lastClick # "none") =>
        stop_flag = (lastClick = "stopcomputing")

\* C15: when the geometry asset has failed to load, no trajectory layer is
\* ever drawn, while the poll loop goes on: a status request is in flight or
\* a poll timer is pending.
LoadFailureSparesPollLoop ==
    world = "failed" =>
        /\ drawnTrail = <<>>
        /\ statusInFlight + Len(timers) >= 1

ViewButFlag ==
    <<lon, lat, az, alt, time, trajectory, labels, logDisplay, rotation,
      world, drawnTrail>>

\* C16: a tracking click changes no view state (and starts nothing that
\* could); a start-computing click or a failed computing request changes no
\* view state; the start-computing success callback only sets stop_flag to
\* false; and stop_flag changes in no callback but the two computing
\* success callbacks.
CommandsTouchOnlyTheFlag ==
    [][/\ last'.op = "clickTracking" =>
              UNCHANGED <<ViewButFlag, stop_flag, statusInFlight, timers, requests>>
       /\ last'.op \in {"clickStartComputing", "requestFailed"} =>
              UNCHANGED <<ViewButFlag, stop_flag, statusInFlight, timers>>
       /\ last'.op = "startComputingSuccess" =>
              stop_flag' = FALSE /\ UNCHANGED <<ViewButFlag, statusInFlight, timers>>
       /\ stop_flag' # stop_flag =>
              last'.op \in {"startComputingSuccess", "stopComputingSuccess"}]_vars

\* Start-computing has succeeded after a stop, with points on the trajectory
\* and lines in the log.
CommandsTouchOnlyTheFlagWitness ==
    /\ last.op = "startComputingSuccess"
    /\ last.stop
    /\ ~stop_flag
    /\ trajectory # <<>>
    /\ logDisplay # <<>>

\* C17: a failed status poll leaves the position, the time, the labels, the
\* rotation and stop_flag unchanged (and the geometry, the drawn trail and
\* the computing requests): it changes only trajectory, the log display and
\* the pending timer.
FailedPollKeepsPosition ==
    [][last'.op = "pollFail" =>
           UNCHANGED <<lon, lat, az, alt, time, labels, rotation, stop_flag,
                       world, drawnTrail, requests>>]_vars

\* A poll has failed after the position (20, 10) was shown, and it emptied
\* the trajectory, logged its line and armed the 2 s timer.
FailedPollKeepsPositionWitness ==
    /\ last.op = "pollFail"
    /\ labels.lon = "20.000"
    /\ labels.lat = "10.000"
    /\ rotation = <<Num(-200000), Num(-100000)>>
    /\ last.traj # <<>>
    /\ trajectory = <<>>
    /\ Len(logDisplay) = Len(last.log) + 1
    /\ timers = <<2000>>

\* C18: the marker sits where it was placed, at the centre of the drawing
\* surface, and after every callback that is where the projection puts the
\* latest known ground point <<lon, lat>>.
MarkerOnGroundPoint ==
    /\ marker = <<Num(0), Num(0)>>
    /\ marker = Project(rotation, <<lon, lat>>)

====
